---- MODULE Spec2Model ----
(***************************************************************************)
(* Model of src/draw.rs of bevy_mod_outline: the two queue systems         *)
(* queue_outline_stencil_mesh and queue_outline_volume_mesh.               *)
(*                                                                         *)
(* Both systems take ResMut<SpecializedMeshPipelines<OutlinePipeline>>, so *)
(* the scheduler never overlaps them: each run is one atomic action, and   *)
(* the two runs of a frame happen in either order.  An .unwrap() that      *)
(* fails is a panic: the run stops where it is and nothing runs after it.  *)
(***************************************************************************)
EXTENDS Integers, Sequences, FiniteSets

VARIABLES
    msaa,               \* Res<Msaa>, as a sample count
    backend,            \* adapter_info.0.backend
    draw_functions,     \* registered <<registry, draw command>> pairs
    entities,           \* entity id -> the components the queries read
    views,              \* view id -> ExtractedView fields and Option<RenderLayers>
    render_meshes,      \* RenderAssets<Mesh>: the handles that resolve
    pipelines,          \* SpecializedMeshPipelines cache: id i is pipelines[i]
    stencil_phase,      \* view id -> RenderPhase<StencilOutline>
    opaque_phase,       \* view id -> RenderPhase<OpaqueOutline>
    transparent_phase,  \* view id -> RenderPhase<TransparentOutline>
    stencil_run,        \* "idle" | "done" | "panicked" in this frame
    volume_run,         \* "idle" | "done" | "panicked" in this frame
    frame,              \* frame number
    prev_render_meshes, \* history: render_meshes of the previous frame
    pipelines0          \* history: pipelines at the start of this frame

vars == <<msaa, backend, draw_functions, entities, views, render_meshes,
          pipelines, stencil_phase, opaque_phase, transparent_phase,
          stencil_run, volume_run, frame, prev_render_meshes, pipelines0>>

world == <<msaa, backend, draw_functions, entities, views>>

(***************************************************************************)
(* Bounds and input domains                                                *)
(***************************************************************************)
MaxFrames == 2

Entities == {1, 2}
Views == {1, 2}
\* Query iteration order (fixed for a given world)
ViewOrder == <<1, 2>>
EntityOrder == <<1, 2>>

Layers == {0, 1}

None == <<>>
Some(x) == <<x>>

\* f32 values, in tenths, with NaN
Float(n) == [nan |-> FALSE, tenths |-> n]
NaN == [nan |-> TRUE, tenths |-> 0]
FloatLt(a, b) == ~a.nan /\ ~b.nan /\ a.tenths < b.tenths
FloatEq(a, b) == ~a.nan /\ ~b.nan /\ a.tenths = b.tenths
FloatGe(a, b) == ~a.nan /\ ~b.nan /\ a.tenths >= b.tenths

\* Mesh assets by handle: primitive topology and vertex layout
Handles == {"cube", "sphere", "wire", "bad"}
MeshAsset(h) ==
    CASE h = "cube"   -> [primitive_topology |-> "TriangleList", layout |-> "PosNormal"]
      [] h = "sphere" -> [primitive_topology |-> "TriangleList", layout |-> "PosNormal"]
      [] h = "wire"   -> [primitive_topology |-> "LineList", layout |-> "PosNormal"]
      [] h = "bad"    -> [primitive_topology |-> "TriangleList", layout |-> "UvOnly"]

\* Vertex layouts the pipeline cannot be specialized for
MalformedLayouts == {"UvOnly"}

AllDrawFunctions == {<<"StencilOutline", "DrawStencil">>,
                     <<"OpaqueOutline", "DrawOutline">>,
                     <<"TransparentOutline", "DrawOutline">>}

(***************************************************************************)
(* PipelineKey: builder over independent axes                              *)
(***************************************************************************)
PipelineKeyNew ==
    [msaa |-> 1, pass_type |-> "Unset", primitive_topology |-> "Unset",
     depth_mode |-> "Unset", offset_zero |-> FALSE, hdr_format |-> FALSE,
     opengl_workaround |-> FALSE]
with_msaa(k, m) == [k EXCEPT !.msaa = m]
with_pass_type(k, p) == [k EXCEPT !.pass_type = p]
with_opengl_workaround(k, b) == [k EXCEPT !.opengl_workaround = b]
with_primitive_topology(k, t) == [k EXCEPT !.primitive_topology = t]
with_depth_mode(k, d) == [k EXCEPT !.depth_mode = d]
with_offset_zero(k, b) == [k EXCEPT !.offset_zero = b]
with_hdr_format(k, b) == [k EXCEPT !.hdr_format = b]

(***************************************************************************)
(* PipelineResolver: memoized by (key, layout); a new pair gets the next   *)
(* identifier; a malformed specialization is an error                      *)
(***************************************************************************)
CacheIndex(cache, key, layout) ==
    LET hits == {i \in 1..Len(cache) : cache[i] = <<key, layout>>}
    IN IF hits = {} THEN 0 ELSE CHOOSE i \in hits : TRUE

Specialize(cache, key, layout) ==
    IF layout \in MalformedLayouts
    THEN [ok |-> FALSE, id |-> 0, cache |-> cache]
    ELSE IF CacheIndex(cache, key, layout) # 0
         THEN [ok |-> TRUE, id |-> CacheIndex(cache, key, layout), cache |-> cache]
         ELSE [ok |-> TRUE, id |-> Len(cache) + 1,
               cache |-> Append(cache, <<key, layout>>)]

(***************************************************************************)
(* Helpers of the queue systems                                            *)
(***************************************************************************)
\* RenderLayers::default(): the first layer only
RenderLayersDefault == {0}

\* RenderLayers::intersects
Intersects(a, b) == a \cap b # {}

\* views.iter_mut() x material_meshes.iter(): view-major order
Iteration ==
    [i \in 1..(Len(ViewOrder) * Len(EntityOrder)) |->
        <<ViewOrder[((i - 1) \div Len(EntityOrder)) + 1],
          EntityOrder[((i - 1) % Len(EntityOrder)) + 1]>>]

\* DrawFunctions<P>::get_id::<D>()
DrawFunctionsGetId(registry, draw) ==
    IF <<registry, draw>> \in draw_functions THEN Some(<<registry, draw>>) ELSE None

\* Mutant: an absent view mask matches every layer
M_StencilViewMaskAll(v) ==
    IF views[v].mask = None THEN Layers ELSE views[v].mask[1]

\* view_mask.copied().unwrap_or_default()
StencilViewMask(v) ==
    IF views[v].mask = None THEN RenderLayersDefault ELSE views[v].mask[1]
VolumeViewMask(v) ==
    IF views[v].mask = None THEN RenderLayersDefault ELSE views[v].mask[1]

\* render_meshes.get(mesh_handle)
RenderMeshesGet(h) == IF h \in render_meshes THEN Some(MeshAsset(h)) ELSE None

\* rangefinder.distance(&Mat4::from_translation(origin))
RangefinderDistance(v, origin) == origin - views[v].translation

\* An entry of a phase
PhaseItem(e, p, d, dist) ==
    [entity |-> e, pipeline |-> p, draw_function |-> d, distance |-> dist]

(***************************************************************************)
(* queue_outline_stencil_mesh                                              *)
(* A run works on a record st of the resources it may write:               *)
(*   stencil, opaque, transparent (the phases), pipelines, panicked        *)
(***************************************************************************)
RunState ==
    [stencil |-> stencil_phase, opaque |-> opaque_phase,
     transparent |-> transparent_phase, pipelines |-> pipelines,
     panicked |-> FALSE]

\* .unwrap() on None / Err
Panic(st) == [st EXCEPT !.panicked = TRUE]

StencilBaseKey ==
    with_opengl_workaround(
        with_pass_type(with_msaa(PipelineKeyNew, msaa), "Stencil"),
        backend = "Gl")

StencilLayerEnabled(v, e) == Intersects(StencilViewMask(v), entities[e].outline_mask)

\* Mutant: the DepthMode::Invalid test is missing
M_StencilDepthUnchecked(e) == TRUE

StencilDepthValid(e) == entities[e].stencil_depth_mode # "Invalid"

\* Mutant: offset-is-zero decided with a tolerance instead of == 0.0
M_StencilKeyEpsilon(e, mesh) ==
    with_offset_zero(
        with_depth_mode(
            with_primitive_topology(StencilBaseKey, mesh.primitive_topology),
            entities[e].stencil_depth_mode),
        FloatLt(entities[e].stencil_offset, Float(7)))

StencilKey(e, mesh) ==
    with_offset_zero(
        with_depth_mode(
            with_primitive_topology(StencilBaseKey, mesh.primitive_topology),
            entities[e].stencil_depth_mode),
        FloatEq(entities[e].stencil_offset, Float(0)))

\* Mutant: a failed specialization is swallowed and the loop goes on
M_StencilSpecializeSwallowed(st) == st

\* pipelines.specialize(..).unwrap() on Err
StencilSpecializeFailed(st) == Panic(st)

\* Mutant: the mesh lookup is unwrapped instead of matched
M_StencilMeshUnwrapped(st) == Panic(st)

\* `if let Some(mesh)` with no else: the entity is skipped
StencilMeshMissing(st) == st

StencilAdd(st, v, item) == [st EXCEPT !.stencil[v] = Append(@, item)]

\* One pass of the inner loop body for view v and entity e
StencilBody(st, draw_stencil, v, e) ==
    IF ~StencilLayerEnabled(v, e) THEN st
    ELSE IF ~StencilDepthValid(e) THEN st
    ELSE LET got == RenderMeshesGet(entities[e].mesh_handle) IN
         IF got = None THEN StencilMeshMissing(st)
         ELSE LET mesh == got[1]
                  r == Specialize(st.pipelines, StencilKey(e, mesh), mesh.layout)
              IN IF ~r.ok THEN StencilSpecializeFailed(st)
                 ELSE StencilAdd([st EXCEPT !.pipelines = r.cache], v,
                          PhaseItem(e, r.id, draw_stencil,
                              RangefinderDistance(v, entities[e].stencil_origin)))

RECURSIVE StencilLoop(_, _, _)
StencilLoop(st, draw_stencil, i) ==
    IF i > Len(Iteration) \/ st.panicked THEN st
    ELSE StencilLoop(StencilBody(st, draw_stencil, Iteration[i][1], Iteration[i][2]),
                     draw_stencil, i + 1)

queue_outline_stencil_mesh(st) ==
    LET id == DrawFunctionsGetId("StencilOutline", "DrawStencil") IN
    IF id = None THEN Panic(st) ELSE StencilLoop(st, id[1], 1)

(***************************************************************************)
(* queue_outline_volume_mesh                                               *)
(***************************************************************************)
VolumeBaseKey ==
    with_opengl_workaround(with_msaa(PipelineKeyNew, msaa), backend = "Gl")

\* Mutant: the layer test is missing
M_VolumeLayerUnchecked(v, e) == TRUE

VolumeLayerEnabled(v, e) == Intersects(VolumeViewMask(v), entities[e].outline_mask)

VolumeDepthValid(e) == entities[e].volume_depth_mode # "Invalid"

\* Mutant: <= 1.0 instead of < 1.0
M_IsTransparentLe(e) ==
    FloatLt(entities[e].alpha, Float(10)) \/ FloatEq(entities[e].alpha, Float(10))

\* fragment_uniform.colour[3] < 1.0
IsTransparent(e) == FloatLt(entities[e].alpha, Float(10))

\* Mutant: the pass type is not switched on transparency
M_VolumePassTypeOpaque(transparent) == "Opaque"

VolumePassType(transparent) == IF transparent THEN "Transparent" ELSE "Opaque"

VolumeKey(v, e, mesh, transparent) ==
    with_hdr_format(
        with_offset_zero(
            with_depth_mode(
                with_pass_type(
                    with_primitive_topology(VolumeBaseKey, mesh.primitive_topology),
                    VolumePassType(transparent)),
                entities[e].volume_depth_mode),
            FloatEq(entities[e].volume_offset, Float(0))),
        views[v].hdr)

\* pipelines.specialize(..).unwrap() on Err
VolumeSpecializeFailed(st) == Panic(st)

\* `if let Some(mesh)` with no else: the entity is skipped
VolumeMeshMissing(st) == st

\* Mutant: a transparent entity is also added to the opaque phase
M_VolumeAddBoth(st, v, transparent, opaque_item, transparent_item) ==
    LET o == [st EXCEPT !.opaque[v] = Append(@, opaque_item)]
    IN IF transparent
       THEN [o EXCEPT !.transparent[v] = Append(@, transparent_item)]
       ELSE o

\* Mutant: opaque outlines land in the stencil phase
M_VolumeAddStencil(st, v, transparent, opaque_item, transparent_item) ==
    IF transparent
    THEN [st EXCEPT !.transparent[v] = Append(@, transparent_item)]
    ELSE [st EXCEPT !.stencil[v] = Append(@, opaque_item)]

\* if transparent { transparent_phase.add(..) } else { opaque_phase.add(..) }
VolumeAdd(st, v, transparent, opaque_item, transparent_item) ==
    IF transparent
    THEN [st EXCEPT !.transparent[v] = Append(@, transparent_item)]
    ELSE [st EXCEPT !.opaque[v] = Append(@, opaque_item)]

VolumeBody(st, draw_opaque_outline, draw_transparent_outline, v, e) ==
    IF ~VolumeLayerEnabled(v, e) THEN st
    ELSE IF ~VolumeDepthValid(e) THEN st
    ELSE LET got == RenderMeshesGet(entities[e].mesh_handle) IN
         IF got = None THEN VolumeMeshMissing(st)
         ELSE LET mesh == got[1]
                  transparent == IsTransparent(e)
                  r == Specialize(st.pipelines, VolumeKey(v, e, mesh, transparent),
                                  mesh.layout)
              IN IF ~r.ok THEN VolumeSpecializeFailed(st)
                 ELSE LET distance == RangefinderDistance(v, entities[e].volume_origin)
                      IN VolumeAdd([st EXCEPT !.pipelines = r.cache], v, transparent,
                             PhaseItem(e, r.id, draw_opaque_outline, distance),
                             PhaseItem(e, r.id, draw_transparent_outline, distance))

RECURSIVE VolumeLoop(_, _, _, _)
VolumeLoop(st, draw_opaque_outline, draw_transparent_outline, i) ==
    IF i > Len(Iteration) \/ st.panicked THEN st
    ELSE VolumeLoop(VolumeBody(st, draw_opaque_outline, draw_transparent_outline,
                               Iteration[i][1], Iteration[i][2]),
                    draw_opaque_outline, draw_transparent_outline, i + 1)

queue_outline_volume_mesh(st) ==
    LET opaque_id == DrawFunctionsGetId("OpaqueOutline", "DrawOutline")
        transparent_id == DrawFunctionsGetId("TransparentOutline", "DrawOutline")
    IN IF opaque_id = None THEN Panic(st)
       ELSE IF transparent_id = None THEN Panic(st)
       ELSE VolumeLoop(st, opaque_id[1], transparent_id[1], 1)

(***************************************************************************)
(* Initial worlds.  Three families of inputs:                              *)
(*   FilterWorld: masks, depth modes, alpha and mesh residency vary        *)
(*   KeyWorld:    every specialization axis varies, every entity eligible  *)
(*   FailWorld:   draw-function registrations and malformed meshes vary    *)
(***************************************************************************)
EmptyPhase == [v \in Views |-> <<>>]

Origin(e) == -3 * e - 2

ViewRecord(v, mask, hdr) == [mask |-> mask, hdr |-> hdr, translation |-> 10 * (v - 1)]

EntityRecord(e, h, mask, sdm, soff, vdm, voff, alpha) ==
    [mesh_handle |-> h, outline_mask |-> mask,
     stencil_depth_mode |-> sdm, stencil_offset |-> soff, stencil_origin |-> Origin(e),
     volume_depth_mode |-> vdm, volume_offset |-> voff, volume_origin |-> Origin(e) - 1,
     alpha |-> alpha]

FilterViewMasks == {None, Some({0}), Some({1})}

FilterEntities(e) ==
    {EntityRecord(e, h, mask, sdm, Float(0), vdm, Float(5), alpha) :
        h \in (IF e = 1 THEN {"cube", "sphere"} ELSE {"sphere"}),
        mask \in {{0}, {1}},
        sdm \in {"Invalid", "Real"}, vdm \in {"Invalid", "Real"},
        alpha \in {Float(5), Float(10)}}

FilterWorld ==
    /\ msaa = 4
    /\ backend = "Vulkan"
    /\ draw_functions = AllDrawFunctions
    /\ entities \in [Entities -> UNION {FilterEntities(e) : e \in Entities}]
    /\ \A e \in Entities : entities[e] \in FilterEntities(e)
    /\ \E m1 \in FilterViewMasks, m2 \in FilterViewMasks :
           views = [v \in Views |-> ViewRecord(v, IF v = 1 THEN m1 ELSE m2, v = 2)]
    /\ render_meshes \in {{"sphere"}, {"cube", "sphere"}}

KeyEntities(e) ==
    {EntityRecord(e, h, {0}, dm, off, dm, off, alpha) :
        h \in {"cube", "sphere", "wire"},
        dm \in (IF e = 1 THEN {"Flat"} ELSE {"Flat", "Real"}),
        off \in {Float(0), Float(5), Float(10)},
        alpha \in {Float(5), Float(10), Float(15), NaN}}

KeyWorld ==
    /\ msaa \in {1, 4}
    /\ backend = "Gl"
    /\ draw_functions = AllDrawFunctions
    /\ entities \in [Entities -> UNION {KeyEntities(e) : e \in Entities}]
    /\ \A e \in Entities : entities[e] \in KeyEntities(e)
    /\ \E hdr \in BOOLEAN :
           views = [v \in Views |-> ViewRecord(v, None, IF v = 1 THEN FALSE ELSE hdr)]
    /\ render_meshes = {"cube", "sphere", "wire"}

FailEntities(e) ==
    {EntityRecord(e, h, mask, "Real", Float(0), "Real", Float(0), alpha) :
        h \in {"cube", "bad"}, mask \in {{0}, {1}}, alpha \in {Float(5), Float(10)}}

FailWorld ==
    /\ msaa = 4
    /\ backend = "Vulkan"
    /\ draw_functions \in {AllDrawFunctions \ {d} : d \in AllDrawFunctions}
                            \cup {AllDrawFunctions}
    /\ entities \in [Entities -> UNION {FailEntities(e) : e \in Entities}]
    /\ \A e \in Entities : entities[e] \in FailEntities(e)
    /\ \E m \in {None, Some({1})} :
           views = [v \in Views |-> ViewRecord(v, IF v = 1 THEN m ELSE Some({0, 1}), FALSE)]
    /\ render_meshes \in {{"cube"}, {"cube", "bad"}}

Init ==
    /\ (FilterWorld \/ KeyWorld \/ FailWorld)
    /\ pipelines = <<>>
    /\ stencil_phase = EmptyPhase
    /\ opaque_phase = EmptyPhase
    /\ transparent_phase = EmptyPhase
    /\ stencil_run = "idle"
    /\ volume_run = "idle"
    /\ frame = 1
    /\ prev_render_meshes = render_meshes
    /\ pipelines0 = <<>>

(***************************************************************************)
(* Actions                                                                 *)
(***************************************************************************)
Panicked == stencil_run = "panicked" \/ volume_run = "panicked"

Outcome(st) == IF st.panicked THEN "panicked" ELSE "done"

\* One run of queue_outline_stencil_mesh in the frame
QueueStencil ==
    /\ ~Panicked
    /\ stencil_run = "idle"
    /\ LET st == queue_outline_stencil_mesh(RunState) IN
        /\ stencil_phase' = st.stencil
        /\ opaque_phase' = st.opaque
        /\ transparent_phase' = st.transparent
        /\ pipelines' = st.pipelines
        /\ stencil_run' = Outcome(st)
    /\ UNCHANGED <<world, render_meshes, volume_run, frame, prev_render_meshes, pipelines0>>

\* One run of queue_outline_volume_mesh in the frame
QueueVolume ==
    /\ ~Panicked
    /\ volume_run = "idle"
    /\ LET st == queue_outline_volume_mesh(RunState) IN
        /\ stencil_phase' = st.stencil
        /\ opaque_phase' = st.opaque
        /\ transparent_phase' = st.transparent
        /\ pipelines' = st.pipelines
        /\ volume_run' = Outcome(st)
    /\ UNCHANGED <<world, render_meshes, stencil_run, frame, prev_render_meshes, pipelines0>>

\* The next frame: phases are created empty, mesh assets may have been uploaded
BeginFrame ==
    /\ stencil_run = "done"
    /\ volume_run = "done"
    /\ frame < MaxFrames
    /\ \E uploaded \in SUBSET ({entities[e].mesh_handle : e \in Entities} \ render_meshes) :
           render_meshes' = render_meshes \cup uploaded
    /\ prev_render_meshes' = render_meshes
    /\ pipelines0' = pipelines
    /\ stencil_phase' = EmptyPhase
    /\ opaque_phase' = EmptyPhase
    /\ transparent_phase' = EmptyPhase
    /\ stencil_run' = "idle"
    /\ volume_run' = "idle"
    /\ frame' = frame + 1
    /\ UNCHANGED <<world, pipelines>>

Next == QueueStencil \/ QueueVolume \/ BeginFrame

Spec == Init /\ [][Next]_vars

(***************************************************************************)
(* Vocabulary of the properties, computed from the world and not from the  *)
(* operators of the queue systems                                          *)
(***************************************************************************)
\* Number of entries of a phase that belong to entity e
Count(phase, e) == Cardinality({i \in 1..Len(phase) : phase[i].entity = e})

VolumeCount(v, e) == Count(opaque_phase[v], e) + Count(transparent_phase[v], e)

Loaded(e) == entities[e].mesh_handle \in render_meshes

\* The view's layers share a layer with the entity's; a view without the
\* component counts as the first layer
LayersMeet(v, e) ==
    IF views[v].mask = None
    THEN 0 \in entities[e].outline_mask
    ELSE views[v].mask[1] \cap entities[e].outline_mask # {}

StencilWanted(v, e) ==
    LayersMeet(v, e) /\ entities[e].stencil_depth_mode # "Invalid" /\ Loaded(e)

VolumeWanted(v, e) ==
    LayersMeet(v, e) /\ entities[e].volume_depth_mode # "Invalid" /\ Loaded(e)

BothDone == stencil_run = "done" /\ volume_run = "done"

(***************************************************************************)
(* C1: an entity whose flags carry depth mode Invalid has no entry in any  *)
(* phase of any view: no Stencil entry when its stencil flags are Invalid, *)
(* no Opaque or Transparent entry when its volume flags are Invalid,       *)
(* whatever its layer mask, alpha or mesh.                                 *)
(***************************************************************************)
C1_InvalidDepthNeverQueued ==
    \A v \in Views, e \in Entities :
        /\ entities[e].stencil_depth_mode = "Invalid" => Count(stencil_phase[v], e) = 0
        /\ entities[e].volume_depth_mode = "Invalid" => VolumeCount(v, e) = 0

\* Both runs are over; an entity with Invalid flags, a matching mask and a
\* loaded mesh was skipped while another entity of the same view was queued
C1_Witness ==
    /\ BothDone
    /\ \E v \in Views, e \in Entities, o \in Entities :
        /\ entities[e].stencil_depth_mode = "Invalid"
        /\ entities[e].volume_depth_mode = "Invalid"
        /\ LayersMeet(v, e) /\ Loaded(e)
        /\ Count(stencil_phase[v], o) = 1 /\ VolumeCount(v, o) = 1

(***************************************************************************)
(* C2: when the entity's layer mask shares no layer with the view's        *)
(* RenderLayers mask, no phase of that view holds an entry for the entity; *)
(* a view whose mask does share a layer still gets the entity's entries.   *)
(***************************************************************************)
C2_DisjointLayersNeverQueued ==
    \A v \in Views, e \in Entities :
        (views[v].mask # None /\ views[v].mask[1] \cap entities[e].outline_mask = {}) =>
            /\ Count(stencil_phase[v], e) = 0
            /\ VolumeCount(v, e) = 0
            /\ \A w \in Views :
                (views[w].mask # None
                 /\ views[w].mask[1] \cap entities[e].outline_mask # {}) =>
                    /\ (stencil_run = "done" /\ StencilWanted(w, e)) =>
                           Count(stencil_phase[w], e) = 1
                    /\ (volume_run = "done" /\ VolumeWanted(w, e)) =>
                           VolumeCount(w, e) = 1

\* An entity skipped in a view with a disjoint mask and queued, by both
\* systems, in the other view
C2_Witness ==
    /\ BothDone
    /\ \E v \in Views, w \in Views, e \in Entities :
        /\ views[v].mask # None /\ views[w].mask # None
        /\ views[v].mask[1] \cap entities[e].outline_mask = {}
        /\ Count(stencil_phase[v], e) = 0 /\ VolumeCount(v, e) = 0
        /\ Count(stencil_phase[w], e) = 1 /\ VolumeCount(w, e) = 1

(***************************************************************************)
(* C3 as stated: for a view without a RenderLayers component the layer     *)
(* test skips no entity: every entity with a valid depth mode and a loaded *)
(* mesh is queued for that view by a completed run.                        *)
(***************************************************************************)
C3_AbsentMaskMatchesAll ==
    \A v \in Views, e \in Entities :
        views[v].mask = None =>
            /\ (stencil_run = "done" /\ Loaded(e)
                /\ entities[e].stencil_depth_mode # "Invalid") =>
                   Count(stencil_phase[v], e) = 1
            /\ (volume_run = "done" /\ Loaded(e)
                /\ entities[e].volume_depth_mode # "Invalid") =>
                   VolumeCount(v, e) = 1

(***************************************************************************)
(* C3 amended: for a view without a RenderLayers component the mask used   *)
(* is RenderLayers::default(), the first layer only: an entity passes the  *)
(* layer test for that view iff its mask holds layer 0, in either queuer.  *)
(***************************************************************************)
C3_AbsentMaskIsFirstLayer ==
    \A v \in Views, e \in Entities :
        views[v].mask = None =>
            /\ 0 \notin entities[e].outline_mask =>
                   Count(stencil_phase[v], e) = 0 /\ VolumeCount(v, e) = 0
            /\ (0 \in entities[e].outline_mask /\ stencil_run = "done" /\ Loaded(e)
                /\ entities[e].stencil_depth_mode # "Invalid") =>
                   Count(stencil_phase[v], e) = 1
            /\ (0 \in entities[e].outline_mask /\ volume_run = "done" /\ Loaded(e)
                /\ entities[e].volume_depth_mode # "Invalid") =>
                   VolumeCount(v, e) = 1

\* A view without the component: one entity on layer 1 only was skipped by
\* both systems, another on layer 0 was queued by both
C3_Witness ==
    /\ BothDone
    /\ \E v \in Views, e \in Entities, o \in Entities :
        /\ views[v].mask = None
        /\ entities[e].outline_mask = {1} /\ Loaded(e)
        /\ entities[e].stencil_depth_mode # "Invalid"
        /\ entities[e].volume_depth_mode # "Invalid"
        /\ Count(stencil_phase[v], e) = 0 /\ VolumeCount(v, e) = 0
        /\ 0 \in entities[o].outline_mask
        /\ Count(stencil_phase[v], o) = 1 /\ VolumeCount(v, o) = 1

(***************************************************************************)
(* C4: after a completed run of queue_outline_volume_mesh, every volume    *)
(* entity with a valid depth mode, an intersecting mask and a loaded mesh  *)
(* has exactly one entry in the view: in the Transparent phase only when   *)
(* alpha < 1.0, in the Opaque phase only when alpha >= 1.0.                *)
(***************************************************************************)
C4_AlphaPicksOnePhase ==
    volume_run = "done" =>
        \A v \in Views, e \in Entities :
            VolumeWanted(v, e) =>
                /\ VolumeCount(v, e) = 1
                /\ FloatLt(entities[e].alpha, Float(10)) =>
                       Count(transparent_phase[v], e) = 1 /\ Count(opaque_phase[v], e) = 0
                /\ FloatGe(entities[e].alpha, Float(10)) =>
                       Count(opaque_phase[v], e) = 1 /\ Count(transparent_phase[v], e) = 0

\* One view holds an entity with alpha exactly 1.0 in its Opaque phase and
\* an entity with alpha 0.5 in its Transparent phase
C4_Witness ==
    /\ volume_run = "done"
    /\ \E v \in Views, e \in Entities, o \in Entities :
        /\ entities[e].alpha = Float(10) /\ Count(opaque_phase[v], e) = 1
        /\ entities[o].alpha = Float(5) /\ Count(transparent_phase[v], o) = 1

(***************************************************************************)
(* C5: within a frame, two queued entries that agree on MSAA sample count, *)
(* pass type, mesh primitive topology, depth mode, offset-is-zero, view    *)
(* HDR flag, backend-workaround flag and mesh vertex layout carry the same *)
(* pipeline identifier.  (MSAA and the backend are per frame, so any two   *)
(* entries of a frame agree on them.)                                      *)
(***************************************************************************)
\* Every entry of the frame, with the pass and the view it was queued for
QueuedItems ==
    UNION {
        {[pass |-> "Stencil", view |-> v, item |-> stencil_phase[v][i]] :
            i \in 1..Len(stencil_phase[v])}
        \cup {[pass |-> "Opaque", view |-> v, item |-> opaque_phase[v][i]] :
            i \in 1..Len(opaque_phase[v])}
        \cup {[pass |-> "Transparent", view |-> v, item |-> transparent_phase[v][i]] :
            i \in 1..Len(transparent_phase[v])}
        : v \in Views}

ItemDepthMode(q) ==
    IF q.pass = "Stencil" THEN entities[q.item.entity].stencil_depth_mode
    ELSE entities[q.item.entity].volume_depth_mode

ItemOffsetZero(q) ==
    IF q.pass = "Stencil" THEN entities[q.item.entity].stencil_offset = Float(0)
    ELSE entities[q.item.entity].volume_offset = Float(0)

ItemMesh(q) == MeshAsset(entities[q.item.entity].mesh_handle)

SameCombination(a, b) ==
    /\ a.pass = b.pass
    /\ ItemMesh(a).primitive_topology = ItemMesh(b).primitive_topology
    /\ ItemMesh(a).layout = ItemMesh(b).layout
    /\ ItemDepthMode(a) = ItemDepthMode(b)
    /\ ItemOffsetZero(a) = ItemOffsetZero(b)
    /\ views[a.view].hdr = views[b.view].hdr

C5_SameCombinationSamePipeline ==
    \A a \in QueuedItems, b \in QueuedItems :
        SameCombination(a, b) => a.item.pipeline = b.item.pipeline

\* Two entities with different meshes and different non-zero offsets, in
\* the same combination, share the pipeline of their Stencil entries, while
\* a third entry of the frame got another pipeline
C5_Witness ==
    \E a \in QueuedItems, b \in QueuedItems, c \in QueuedItems :
        /\ a.pass = "Stencil" /\ SameCombination(a, b)
        /\ a.item.entity # b.item.entity
        /\ entities[a.item.entity].mesh_handle # entities[b.item.entity].mesh_handle
        /\ entities[a.item.entity].stencil_offset = Float(5)
        /\ entities[b.item.entity].stencil_offset = Float(10)
        /\ a.item.pipeline = b.item.pipeline
        /\ c.item.pipeline # a.item.pipeline

(***************************************************************************)
(* C6: an entity whose mesh handle is not in the render-asset store has no *)
(* entry and makes no run fail; in the frame after its mesh was uploaded a *)
(* completed run queues it exactly once in every view it is otherwise      *)
(* eligible for.                                                           *)
(***************************************************************************)
\* The causes a run can fail for: a draw function that is not registered,
\* or an entity that is queued for a view with a malformed vertex layout
StencilFailureCause ==
    \/ <<"StencilOutline", "DrawStencil">> \notin draw_functions
    \/ \E v \in Views, e \in Entities :
        StencilWanted(v, e) /\ MeshAsset(entities[e].mesh_handle).layout \in MalformedLayouts

VolumeFailureCause ==
    \/ <<"OpaqueOutline", "DrawOutline">> \notin draw_functions
    \/ <<"TransparentOutline", "DrawOutline">> \notin draw_functions
    \/ \E v \in Views, e \in Entities :
        VolumeWanted(v, e) /\ MeshAsset(entities[e].mesh_handle).layout \in MalformedLayouts

JustUploaded(e) ==
    /\ frame > 1
    /\ entities[e].mesh_handle \notin prev_render_meshes
    /\ Loaded(e)

C6_UnloadedMeshSkippedThenQueued ==
    /\ \A v \in Views, e \in Entities :
        ~Loaded(e) => Count(stencil_phase[v], e) = 0 /\ VolumeCount(v, e) = 0
    /\ stencil_run = "panicked" => StencilFailureCause
    /\ volume_run = "panicked" => VolumeFailureCause
    /\ \A v \in Views, e \in Entities :
        JustUploaded(e) =>
            /\ (stencil_run = "done" /\ StencilWanted(v, e)) =>
                   Count(stencil_phase[v], e) = 1
            /\ (volume_run = "done" /\ VolumeWanted(v, e)) =>
                   VolumeCount(v, e) = 1

\* The second frame, both runs over: an entity that was skipped for its
\* missing mesh in the first frame now has its entries
C6_Witness ==
    /\ BothDone
    /\ \E v \in Views, e \in Entities :
        /\ JustUploaded(e)
        /\ Count(stencil_phase[v], e) = 1 /\ VolumeCount(v, e) = 1

(***************************************************************************)
(* C7 as stated: counting the phases of all views together, an entity has  *)
(* at most one entry produced by a queuer in a frame.                      *)
(***************************************************************************)
RECURSIVE SumOver(_, _)
SumOver(f, S) ==
    IF S = {} THEN 0
    ELSE LET x == CHOOSE y \in S : TRUE IN f[x] + SumOver(f, S \ {x})

C7_OneEntryOverAllViews ==
    \A e \in Entities :
        /\ SumOver([v \in Views |-> Count(stencil_phase[v], e)], Views) <= 1
        /\ SumOver([v \in Views |-> VolumeCount(v, e)], Views) <= 1

(***************************************************************************)
(* C7 amended: in every view, an entity has at most one entry produced by  *)
(* a queuer in a frame (zero or one Stencil entry; zero or one entry in    *)
(* the Opaque and Transparent phases together).                            *)
(***************************************************************************)
C7_OneEntryPerView ==
    \A v \in Views, e \in Entities :
        Count(stencil_phase[v], e) <= 1 /\ VolumeCount(v, e) <= 1

\* An entity queued once in each of the two views, by both systems
C7_Witness ==
    /\ BothDone
    /\ \E e \in Entities :
        \A v \in Views : Count(stencil_phase[v], e) = 1 /\ VolumeCount(v, e) = 1

(***************************************************************************)
(* C8 as stated: a run that aborts on a missing draw-function registration *)
(* or on a failed specialization leaves no phase of any view holding an    *)
(* entry it appended before the failure.                                   *)
(***************************************************************************)
C8_AbortLeavesNoEntries ==
    /\ stencil_run = "panicked" => \A v \in Views : stencil_phase[v] = <<>>
    /\ volume_run = "panicked" =>
           \A v \in Views : opaque_phase[v] = <<>> /\ transparent_phase[v] = <<>>

(***************************************************************************)
(* C8 amended: a missing draw-function registration or a failed            *)
(* specialization is never swallowed or retried: the run aborts at that    *)
(* point, having appended nothing for the failing (view, entity) pair or   *)
(* any later one, and a run completes only when nothing failed; the        *)
(* entries appended before the failure stay in their phases.               *)
(***************************************************************************)
Malformed(e) == MeshAsset(entities[e].mesh_handle).layout \in MalformedLayouts

\* Position in the iteration of the first failure of a run: 0 for a draw
\* function that is not registered, past the end when nothing fails
StencilFirstFailure ==
    LET bad == {i \in 1..Len(Iteration) :
                   StencilWanted(Iteration[i][1], Iteration[i][2])
                   /\ Malformed(Iteration[i][2])}
    IN IF <<"StencilOutline", "DrawStencil">> \notin draw_functions THEN 0
       ELSE IF bad = {} THEN Len(Iteration) + 1
       ELSE CHOOSE i \in bad : \A j \in bad : i <= j

VolumeFirstFailure ==
    LET bad == {i \in 1..Len(Iteration) :
                   VolumeWanted(Iteration[i][1], Iteration[i][2])
                   /\ Malformed(Iteration[i][2])}
    IN IF <<"OpaqueOutline", "DrawOutline">> \notin draw_functions
          \/ <<"TransparentOutline", "DrawOutline">> \notin draw_functions THEN 0
       ELSE IF bad = {} THEN Len(Iteration) + 1
       ELSE CHOOSE i \in bad : \A j \in bad : i <= j

C8_AbortAtFirstFailure ==
    /\ stencil_run # "idle" =>
        /\ stencil_run = "panicked" <=> StencilFirstFailure <= Len(Iteration)
        /\ \A i \in 1..Len(Iteration) :
            Count(stencil_phase[Iteration[i][1]], Iteration[i][2]) =
                IF StencilWanted(Iteration[i][1], Iteration[i][2])
                   /\ i < StencilFirstFailure THEN 1 ELSE 0
    /\ volume_run # "idle" =>
        /\ volume_run = "panicked" <=> VolumeFirstFailure <= Len(Iteration)
        /\ \A i \in 1..Len(Iteration) :
            VolumeCount(Iteration[i][1], Iteration[i][2]) =
                IF VolumeWanted(Iteration[i][1], Iteration[i][2])
                   /\ i < VolumeFirstFailure THEN 1 ELSE 0

\* A run of queue_outline_stencil_mesh aborted on a failed specialization
\* after it had appended an entry
C8_Witness ==
    /\ stencil_run = "panicked"
    /\ StencilFirstFailure \in 2..Len(Iteration)
    /\ \E v \in Views : stencil_phase[v] # <<>>

(***************************************************************************)
(* C9 as stated: the two queuers share no mutable state, so the Stencil,   *)
(* Opaque and Transparent phases of a frame are the same whichever of the  *)
(* two runs first.                                                         *)
(***************************************************************************)
FrameStart ==
    [stencil |-> EmptyPhase, opaque |-> EmptyPhase, transparent |-> EmptyPhase,
     pipelines |-> pipelines0, panicked |-> FALSE]

StencilThenVolume == queue_outline_volume_mesh(queue_outline_stencil_mesh(FrameStart))
VolumeThenStencil == queue_outline_stencil_mesh(queue_outline_volume_mesh(FrameStart))

PhasesOf(st) == <<st.stencil, st.opaque, st.transparent>>

C9_OrderIndependentPhases ==
    BothDone =>
        /\ <<stencil_phase, opaque_phase, transparent_phase>> = PhasesOf(StencilThenVolume)
        /\ <<stencil_phase, opaque_phase, transparent_phase>> = PhasesOf(VolumeThenStencil)

(***************************************************************************)
(* C9 amended: the two queuers share one mutable resource, the pipeline    *)
(* specialization cache, and besides it each mutates only its own phases   *)
(* (Stencil; Opaque and Transparent).  Whichever runs first, the phases    *)
(* hold the same entries in the same order up to the numbering of pipeline *)
(* identifiers: same entity, draw function and distance, and a pipeline    *)
(* that was specialized for the same key and vertex layout.                *)
(***************************************************************************)
ResolvedPhase(phase, cache) ==
    [v \in Views |->
        [i \in 1..Len(phase[v]) |->
            [entity |-> phase[v][i].entity,
             draw_function |-> phase[v][i].draw_function,
             distance |-> phase[v][i].distance,
             specialization |-> cache[phase[v][i].pipeline]]]]

Resolved(st) ==
    <<ResolvedPhase(st.stencil, st.pipelines), ResolvedPhase(st.opaque, st.pipelines),
      ResolvedPhase(st.transparent, st.pipelines)>>

C9_OrderIndependentUpToPipelineIds ==
    /\ stencil_run = "idle" => stencil_phase = EmptyPhase
    /\ volume_run = "idle" => opaque_phase = EmptyPhase /\ transparent_phase = EmptyPhase
    /\ BothDone =>
        /\ Resolved(RunState) = Resolved(StencilThenVolume)
        /\ Resolved(RunState) = Resolved(VolumeThenStencil)

\* Both runs are over, all three kinds of phase hold entries, and the other
\* order would have numbered the pipelines differently
C9_Witness ==
    /\ BothDone
    /\ \E v \in Views :
        stencil_phase[v] # <<>> /\ opaque_phase[v] # <<>> /\ transparent_phase[v] # <<>>
    /\ PhasesOf(StencilThenVolume) # PhasesOf(VolumeThenStencil)

(***************************************************************************)
(* C10: every entry agrees with the phase that holds it: its pipeline was  *)
(* specialized for a key whose pass type is that of the phase, and its     *)
(* draw function is the one looked up in the registry of that phase.       *)
(***************************************************************************)
DrawFunctionOfPass(pass) ==
    CASE pass = "Stencil" -> <<"StencilOutline", "DrawStencil">>
      [] pass = "Opaque" -> <<"OpaqueOutline", "DrawOutline">>
      [] pass = "Transparent" -> <<"TransparentOutline", "DrawOutline">>

C10_EntryMatchesItsPhase ==
    \A q \in QueuedItems :
        /\ q.item.pipeline \in 1..Len(pipelines)
        /\ pipelines[q.item.pipeline][1].pass_type = q.pass
        /\ q.item.draw_function = DrawFunctionOfPass(q.pass)

\* Both runs are over and one view holds entries in all three phases
C10_Witness ==
    /\ BothDone
    /\ \E v \in Views :
        stencil_phase[v] # <<>> /\ opaque_phase[v] # <<>> /\ transparent_phase[v] # <<>>
    /\ Len(pipelines) >= 3

====
